---- MODULE Spec2Model ----
(***************************************************************************)
(* MicroQubit: fixed-size statevector simulator (src/MicroQubit.ino).      *)
(*                                                                         *)
(* The amplitude arrays stateReal / stateImag hold IEEE-754 binary32       *)
(* values.  A float is modelled bit-exactly as a record [s, e, m] whose    *)
(* value is (-1)^s * m * 2^e, with                                         *)
(*    m in [2^23, 2^24) and e in [-149, 104]   (normal numbers),           *)
(*    m in (0, 2^23)    and e = -149           (subnormal numbers),        *)
(*    m = 0             and e = -149           (signed zero).              *)
(* Every arithmetic operator rounds to nearest, ties to even, and every    *)
(* operation of an expression is rounded on its own (no fused multiply-    *)
(* add).  All intermediate integers stay below 2^31.  A record with        *)
(* m = -1 (Indeterminate) is a value that the program does not determine:  *)
(* what a read of memory it never wrote returns.                           *)
(*                                                                         *)
(* The engine state is stateReal, stateImag and currentMeasurement, the    *)
(* LCD rotation state is currentDisplayState, dotCount and the time since  *)
(* lastLCDUpdate; the other variables record the calls made, so that       *)
(* properties of one call or of a repeated call are state predicates.      *)
(*                                                                         *)
(* Spec is the program as its requests drive it, SpecLCD is loop() with    *)
(* the passage of time: iterations that run updateLCDRotation, some of     *)
(* them followed by a request.                                             *)
(***************************************************************************)
EXTENDS Integers, Sequences, FiniteSets, TLC

\* ------------------------------------------------------------------------
\* binary32 arithmetic
\* ------------------------------------------------------------------------

MantBits == 24
MinExp == -149
MaxExp == 104
TwoP23 == 8388608
TwoP24 == 16777216
TwoP12 == 4096

Pow2(n) == 2^n

RECURSIVE BitLen(_)
BitLen(n) == IF n = 0 THEN 0 ELSE 1 + BitLen(n \div 2)

MkFloat(s, e, m) == [s |-> s, e |-> e, m |-> m]

FZero(s) == MkFloat(s, MinExp, 0)

IsZero(a) == a.m = 0

\* The content of memory that the program has not written: what a read
\* outside stateReal and stateImag, or of a local array entry that was
\* never stored, returns when the read does not fault.  It stands for any
\* bit pattern, each occurrence for one of its own: two of them need not be
\* equal, and none is known to equal any value of the program.
Indeterminate == MkFloat(0, 0, -1)

IsIndeterminate(a) == a.m < 0

\* Rounds sig * 2^e (sig < 2^31; sticky says that nonzero bits lie below
\* sig's last bit) to the nearest binary32, ties to even.
RoundPack(s, e, sig, sticky) ==
  IF sig = 0 THEN FZero(s)
  ELSE
    LET len == BitLen(sig)
        k0 == len - MantBits
        k == IF e + k0 < MinExp THEN MinExp - e ELSE k0
    IN IF k <= 0
       THEN MkFloat(s, e + k, sig * Pow2(-k))
       ELSE IF k > 31 THEN FZero(s)
       ELSE
         LET p == Pow2(k - 1)
             q == (sig \div p) \div 2
             rem == sig - (q * p) * 2
             up == \/ rem > p
                   \/ rem = p /\ (sticky \/ (q % 2) = 1)
             m == IF up THEN q + 1 ELSE q
         IN IF m = TwoP24 THEN MkFloat(s, e + k + 1, TwoP23)
            ELSE IF m = 0 THEN FZero(s)
            ELSE MkFloat(s, e + k, m)

\* Unary minus: flips the sign bit, also of a zero.
FNeg(a) ==
  IF IsIndeterminate(a) THEN Indeterminate ELSE MkFloat(1 - a.s, a.e, a.m)

\* x >> d with the bits shifted out OR-ed into the last bit.
ShiftRightJam(x, d) ==
  IF d = 0 THEN x
  ELSE IF d >= 31 THEN (IF x = 0 THEN 0 ELSE 1)
  ELSE LET p == Pow2(d)
           q == x \div p
       IN IF (x % p) /= 0 /\ (q % 2) = 0 THEN q + 1 ELSE q

\* |a| >= |b|
MagGeq(a, b) == a.e > b.e \/ (a.e = b.e /\ a.m >= b.m)

\* (An operation on an indeterminate operand has an indeterminate result.)
FAdd(a, b) ==
  IF IsIndeterminate(a) \/ IsIndeterminate(b) THEN Indeterminate
  ELSE IF IsZero(a) /\ IsZero(b) THEN FZero(IF a.s = b.s THEN a.s ELSE 0)
  ELSE IF IsZero(a) THEN b
  ELSE IF IsZero(b) THEN a
  ELSE
    LET big == IF MagGeq(a, b) THEN a ELSE b
        sml == IF MagGeq(a, b) THEN b ELSE a
        xb == big.m * 8
        xs == ShiftRightJam(sml.m * 8, big.e - sml.e)
    IN IF a.s = b.s
       THEN RoundPack(big.s, big.e - 3, xb + xs, FALSE)
       ELSE IF xb = xs THEN FZero(0)
       ELSE RoundPack(big.s, big.e - 3, xb - xs, FALSE)

FSub(a, b) == FAdd(a, FNeg(b))

\* A nonzero operand with its mantissa shifted up to 24 bits.
RECURSIVE Normal(_)
Normal(a) == IF a.m >= TwoP23 THEN a ELSE Normal(MkFloat(a.s, a.e - 1, a.m * 2))

FMul(a, b) ==
  LET s == IF a.s = b.s THEN 0 ELSE 1
  IN IF IsIndeterminate(a) \/ IsIndeterminate(b) THEN Indeterminate
     ELSE IF IsZero(a) \/ IsZero(b) THEN FZero(s)
     ELSE
       LET x == Normal(a)
           y == Normal(b)
           a1 == x.m \div TwoP12
           a0 == x.m % TwoP12
           b1 == y.m \div TwoP12
           b0 == y.m % TwoP12
           mid == a1 * b0 + a0 * b1
           low == a0 * b0 + (mid % TwoP12) * TwoP12
           lo == low % TwoP24
           hi == a1 * b1 + (mid \div TwoP12) + (low \div TwoP24)
           \* product = hi * 2^24 + lo, hi in [2^22, 2^24)
           t == hi * 4 + (lo \div 4194304)
       IN RoundPack(s, x.e + y.e + 22, t, (lo % 4194304) /= 0)

\* Long division, seven quotient bits a step.
RECURSIVE DivSteps(_, _, _, _)
DivSteps(q, r, d, n) ==
  IF n = 0 THEN <<q, r>>
  ELSE DivSteps(q * 128 + ((r * 128) \div d), (r * 128) % d, d, n - 1)

\* Division by zero (infinity, NaN) is not representable: the callers divide
\* by sqrt(sum) with sum > 0.0001 only.
FDiv(a, b) ==
  LET s == IF a.s = b.s THEN 0 ELSE 1
  IN IF IsIndeterminate(a) \/ IsIndeterminate(b) THEN Indeterminate
     ELSE IF IsZero(a) THEN FZero(s)
     ELSE
       LET x == Normal(a)
           y == Normal(b)
           qr == DivSteps(x.m \div y.m, x.m % y.m, y.m, 4)
       IN RoundPack(s, x.e - y.e - 28, qr[1], qr[2] /= 0)

\* Digit-by-digit square root: root = floor(sqrt(m * 4^n)) with remainder.
RECURSIVE SqrtSteps(_, _, _)
SqrtSteps(root, rem, n) ==
  IF n = 0 THEN <<root, rem>>
  ELSE LET r4 == rem * 4
           t == root * 4 + 1
       IN IF r4 >= t THEN SqrtSteps(root * 2 + 1, r4 - t, n - 1)
          ELSE SqrtSteps(root * 2, r4, n - 1)

\* floor(sqrt(n)) and the remainder, for n < 2^26, two bits of n a step.
RECURSIVE ISqrt(_, _)
ISqrt(n, bits) ==
  IF bits = 0 THEN <<0, 0>>
  ELSE LET up == ISqrt(n \div 4, bits - 2)
           r4 == up[2] * 4 + (n % 4)
           t == up[1] * 4 + 1
       IN IF r4 >= t THEN <<up[1] * 2 + 1, r4 - t>>
          ELSE <<up[1] * 2, r4>>

\* The operand is a sum of squares, never negative.
FSqrt(a) ==
  IF IsIndeterminate(a) \/ IsZero(a) THEN a
  ELSE
    LET x == Normal(a)
        odd == (x.e % 2) /= 0
        m2 == IF odd THEN x.m * 2 ELSE x.m
        e2 == IF odd THEN x.e - 1 ELSE x.e
        r0 == ISqrt(m2, 26)
        r == SqrtSteps(r0[1], r0[2], 14)
    IN RoundPack(0, (e2 \div 2) - 14, r[1], r[2] /= 0)

\* a > b as the C comparison operator (-0 is not above +0).
FGt(a, b) ==
  IF IsZero(a) /\ IsZero(b) THEN FALSE
  ELSE IF a.s /= b.s THEN a.s = 0
  ELSE IF a.s = 0 THEN MagGeq(a, b) /\ ~(a.e = b.e /\ a.m = b.m)
  ELSE MagGeq(b, a) /\ ~(a.e = b.e /\ a.m = b.m)

\* ------------------------------------------------------------------------
\* Constants of the program
\* ------------------------------------------------------------------------

\* Register size: a compile-time parameter of the sketch (10 in the
\* repository), instantiated small here.
NUM_QUBITS == 2
STATE_SIZE == Pow2(NUM_QUBITS)
Indices == 0 .. (STATE_SIZE - 1)

F0 == FZero(0)
\* 1.0
F1 == MkFloat(0, -23, TwoP23)
\* 0.5, the threshold of measureQubit
Half == MkFloat(0, -24, TwoP23)
\* (float) 0.70710678118 = 0x3F3504F3
invSqrt2 == MkFloat(0, -24, 11863283)
cosPi4 == invSqrt2
sinPi4 == invSqrt2
\* normalizeState compares the float sum with the double 0.0001; the
\* largest binary32 not above it is 0x38D1B717, so sum > 0.0001 exactly
\* when sum > NormEps.
NormEps == MkFloat(0, -37, 13743895)

\* ------------------------------------------------------------------------
\* int mask = 1 << qubit, and the index arithmetic with it
\* ------------------------------------------------------------------------

IntMin == (-2147483647) - 1

\* The values 1 << qubit can take.  A negative shift count is undefined
\* behaviour: the target's register shift gives 0 (the count's low byte
\* is at least 32), a shifter that takes the count modulo 32 gives
\* 1 << (qubit & 31).
ShiftOutcomes(qubit) ==
  IF qubit >= 0 THEN {Pow2(qubit)}
  ELSE {0, IF qubit % 32 = 31 THEN IntMin ELSE Pow2(qubit % 32)}

\* (i & mask) != 0, for 0 <= i < STATE_SIZE and mask zero or one bit
MaskBit(i, mask) == IF mask <= 0 THEN FALSE ELSE ((i \div mask) % 2) = 1

\* i ^ mask
XorMask(i, mask) ==
  IF mask <= 0 THEN i + mask
  ELSE IF MaskBit(i, mask) THEN i - mask ELSE i + mask

\* i & ~mask
ClearMask(i, mask) == IF MaskBit(i, mask) THEN i - mask ELSE i

\* i | mask
SetMask(i, mask) ==
  IF mask <= 0 THEN i + mask
  ELSE IF MaskBit(i, mask) THEN i ELSE i + mask

InBounds(idx) == idx >= 0 /\ idx < STATE_SIZE

\* arr[idx].  A read outside the array is undefined behaviour: either it
\* faults, which ends the program (the fault outcome of Call), or it returns
\* what the addressed memory holds, which the program does not determine.
\* The index leaves the array with mask INT_MIN (i + INT_MIN, far below it)
\* and with a mask >= STATE_SIZE, which a negative qubit gives when the
\* shifter takes the count modulo 32 (i + mask, behind it); the bound check
\* stops neither.  Where addresses are 32 bits wide that of arr[i + INT_MIN]
\* wraps to that of arr[i], and the call then ends as it does with mask 0.
Read(arr, idx) == IF InBounds(idx) THEN arr[idx] ELSE Indeterminate

\* ------------------------------------------------------------------------
\* State
\* ------------------------------------------------------------------------

VARIABLES
  stateReal,           \* float stateReal[STATE_SIZE]
  stateImag,           \* float stateImag[STATE_SIZE]
  currentMeasurement,  \* int currentMeasurement
  lastOp,              \* the last call: [op, q, t]
  prevReal, prevImag,  \* the arrays before the last call
  prevMeasurement,     \* currentMeasurement before the last call
  runLen,              \* how many times in a row the last call was made
  runReal, runImag,    \* the arrays before the first call of that run
  oob,                 \* the last call read outside the arrays
  fault,               \* a read outside an array faulted: the program has stopped
  undefined,           \* a call had undefined behaviour
  measured,            \* measureQubit collapsed a qubit since the last reset
  steps,               \* calls so far
  badCalls,            \* calls so far that the bound check rejected
  sinceLCDUpdate,      \* millis() - lastLCDUpdate at the last read of millis()
  currentDisplayState, \* int currentDisplayState
  dotCount,            \* int dotCount
  lcdCall              \* the call of displayStateOnLCD the last step made

vars == <<stateReal, stateImag, currentMeasurement, lastOp, prevReal,
          prevImag, prevMeasurement, runLen, runReal, runImag, oob, fault,
          undefined, measured, steps, badCalls, sinceLCDUpdate, currentDisplayState,
          dotCount, lcdCall>>

\* Bounds of the exploration: the calls of a run, and those among them
\* that the bound check rejects.
MaxSteps == 3
MaxBadCalls == 1

\* The qubit numbers a request can carry (String::toInt gives any int):
\* those in range, NUM_QUBITS, which the bound check rejects, and two
\* negative ones, -1, whose shift count modulo 32 is 31 (the sign bit), and
\* NUM_QUBITS - 32, whose count modulo 32 is NUM_QUBITS (the first bit above
\* the indices).
QubitInputs == {NUM_QUBITS - 32} \cup ((-1) .. NUM_QUBITS)

InRange(q) == q >= 0 /\ q < NUM_QUBITS

NoTarget == -1

\* A call: the gate, its qubit (the control of a CNOT) and its target.
Op(op, q, t) == [q |-> q, t |-> t, op |-> op]

\* ------------------------------------------------------------------------
\* The engine's functions.  A gate maps the arrays to the new arrays and
\* tells whether it read outside them; mask is the value of 1 << qubit.
\* ------------------------------------------------------------------------

Result(re, im, bad) == [re |-> re, im |-> im, oob |-> bad]

\* re * re + im * im
getStateProbability(re, im, state) ==
  FAdd(FMul(re[state], re[state]), FMul(im[state], im[state]))

Ground == [i \in Indices |-> IF i = 0 THEN F1 ELSE F0]
AllZero == [i \in Indices |-> F0]

\* Variant: the loop clears stateReal only.
initializeQuantumState_KeepsImag(re, im, cm) ==
  [re |-> [i \in Indices |-> IF i = 0 THEN F1 ELSE F0],
   im |-> im,
   cm |-> 0]

\* Overwrites the arrays re, im and the measurement record.
initializeQuantumState(re, im, cm) ==
  [re |-> [i \in Indices |-> IF i = 0 THEN F1 ELSE F0],
   im |-> [i \in Indices |-> F0],
   cm |-> 0]

\* Variant: no bound check.
applyXGate_NoBoundCheck(re, im, qubit, mask) ==
  Result([i \in Indices |-> Read(re, XorMask(i, mask))],
         [i \in Indices |-> Read(im, XorMask(i, mask))],
         \E i \in Indices : ~InBounds(XorMask(i, mask)))

\* Variant: the swap done in place, without the temporary arrays, so the
\* upper index of a pair reads the lower one after it was overwritten.
applyXGate_InPlace(re, im, qubit, mask) ==
  IF qubit >= NUM_QUBITS THEN Result(re, im, FALSE)
  ELSE Result([i \in Indices |->
                 IF MaskBit(i, mask) THEN re[i] ELSE Read(re, XorMask(i, mask))],
              [i \in Indices |->
                 IF MaskBit(i, mask) THEN im[i] ELSE Read(im, XorMask(i, mask))],
              \E i \in Indices : ~InBounds(XorMask(i, mask)))

applyXGate(re, im, qubit, mask) ==
  IF qubit >= NUM_QUBITS THEN Result(re, im, FALSE)
  ELSE Result([i \in Indices |-> Read(re, XorMask(i, mask))],
              [i \in Indices |-> Read(im, XorMask(i, mask))],
              \E i \in Indices : ~InBounds(XorMask(i, mask)))

applyYGate(re, im, qubit, mask) ==
  IF qubit >= NUM_QUBITS THEN Result(re, im, FALSE)
  ELSE Result([i \in Indices |->
                 IF MaskBit(i, mask)
                 THEN FNeg(Read(im, XorMask(i, mask)))
                 ELSE Read(im, XorMask(i, mask))],
              [i \in Indices |->
                 IF MaskBit(i, mask)
                 THEN Read(re, XorMask(i, mask))
                 ELSE FNeg(Read(re, XorMask(i, mask)))],
              \E i \in Indices : ~InBounds(XorMask(i, mask)))

\* Variant: the loop tests i & qubit instead of i & mask.
applyZGate_TestsQubit(re, im, qubit, mask) ==
  IF qubit >= NUM_QUBITS THEN Result(re, im, FALSE)
  ELSE Result([i \in Indices |-> IF MaskBit(i, qubit) THEN FNeg(re[i]) ELSE re[i]],
              [i \in Indices |-> IF MaskBit(i, qubit) THEN FNeg(im[i]) ELSE im[i]],
              FALSE)

applyZGate(re, im, qubit, mask) ==
  IF qubit >= NUM_QUBITS THEN Result(re, im, FALSE)
  ELSE Result([i \in Indices |-> IF MaskBit(i, mask) THEN FNeg(re[i]) ELSE re[i]],
              [i \in Indices |-> IF MaskBit(i, mask) THEN FNeg(im[i]) ELSE im[i]],
              FALSE)

\* Variant: the imaginary part leaves out oldReal * sinPi4.
applyTGate_NoCross(re, im, qubit, mask) ==
  IF qubit >= NUM_QUBITS THEN Result(re, im, FALSE)
  ELSE Result([i \in Indices |->
                 IF MaskBit(i, mask)
                 THEN FSub(FMul(re[i], cosPi4), FMul(im[i], sinPi4))
                 ELSE re[i]],
              [i \in Indices |->
                 IF MaskBit(i, mask) THEN FMul(im[i], cosPi4) ELSE im[i]],
              FALSE)

applyTGate(re, im, qubit, mask) ==
  IF qubit >= NUM_QUBITS THEN Result(re, im, FALSE)
  ELSE Result([i \in Indices |->
                 IF MaskBit(i, mask)
                 THEN FSub(FMul(re[i], cosPi4), FMul(im[i], sinPi4))
                 ELSE re[i]],
              [i \in Indices |->
                 IF MaskBit(i, mask)
                 THEN FAdd(FMul(re[i], sinPi4), FMul(im[i], cosPi4))
                 ELSE im[i]],
              FALSE)

\* Variant: flips the control bit instead of the target bit.
applyCNOTGate_FlipsControl(re, im, control, target, controlMask, targetMask) ==
  IF control >= NUM_QUBITS \/ target >= NUM_QUBITS \/ control = target
  THEN Result(re, im, FALSE)
  ELSE Result([i \in Indices |->
                 IF MaskBit(i, controlMask)
                 THEN Read(re, XorMask(i, controlMask)) ELSE re[i]],
              [i \in Indices |->
                 IF MaskBit(i, controlMask)
                 THEN Read(im, XorMask(i, controlMask)) ELSE im[i]],
              FALSE)

\* Variant: the copy done in place, without tempReal and tempImag, so the
\* upper index of a pair reads the lower one after it was overwritten.
applyCNOTGate_InPlace(re, im, control, target, controlMask, targetMask) ==
  IF control >= NUM_QUBITS \/ target >= NUM_QUBITS \/ control = target
  THEN Result(re, im, FALSE)
  ELSE Result([i \in Indices |->
                 IF MaskBit(i, controlMask) /\ ~MaskBit(i, targetMask)
                 THEN Read(re, XorMask(i, targetMask)) ELSE re[i]],
              [i \in Indices |->
                 IF MaskBit(i, controlMask) /\ ~MaskBit(i, targetMask)
                 THEN Read(im, XorMask(i, targetMask)) ELSE im[i]],
              \E i \in Indices :
                 MaskBit(i, controlMask) /\ ~InBounds(XorMask(i, targetMask)))

applyCNOTGate(re, im, control, target, controlMask, targetMask) ==
  IF control >= NUM_QUBITS \/ target >= NUM_QUBITS \/ control = target
  THEN Result(re, im, FALSE)
  ELSE Result([i \in Indices |->
                 IF MaskBit(i, controlMask)
                 THEN Read(re, XorMask(i, targetMask)) ELSE re[i]],
              [i \in Indices |->
                 IF MaskBit(i, controlMask)
                 THEN Read(im, XorMask(i, targetMask)) ELSE im[i]],
              \E i \in Indices :
                 MaskBit(i, controlMask) /\ ~InBounds(XorMask(i, targetMask)))

\* Variant: the |1> branch adds instead of subtracting.
applyHGate_NoMinus(re, im, qubit, mask) ==
  IF qubit >= NUM_QUBITS THEN Result(re, im, FALSE)
  ELSE Result([i \in Indices |->
                 FMul(invSqrt2, FAdd(re[ClearMask(i, mask)],
                                     Read(re, SetMask(i, mask))))],
              [i \in Indices |->
                 FMul(invSqrt2, FAdd(im[ClearMask(i, mask)],
                                     Read(im, SetMask(i, mask))))],
              \E i \in Indices : ~InBounds(SetMask(i, mask)))

applyHGate(re, im, qubit, mask) ==
  IF qubit >= NUM_QUBITS THEN Result(re, im, FALSE)
  ELSE Result([i \in Indices |->
                 LET i0 == ClearMask(i, mask)
                     i1 == SetMask(i, mask)
                 IN IF i = i0
                    THEN FMul(invSqrt2, FAdd(re[i0], Read(re, i1)))
                    ELSE FMul(invSqrt2, FSub(re[i0], Read(re, i1)))],
              [i \in Indices |->
                 LET i0 == ClearMask(i, mask)
                     i1 == SetMask(i, mask)
                 IN IF i = i0
                    THEN FMul(invSqrt2, FAdd(im[i0], Read(im, i1)))
                    ELSE FMul(invSqrt2, FSub(im[i0], Read(im, i1)))],
              \E i \in Indices : ~InBounds(SetMask(i, mask)))

\* The loop of measureQubit: prob0 after the indices below n, added in
\* index order.
RECURSIVE Prob0(_, _, _, _)
Prob0(re, im, mask, n) ==
  IF n = 0 THEN F0
  ELSE IF ~MaskBit(n - 1, mask)
       THEN FAdd(Prob0(re, im, mask, n - 1), getStateProbability(re, im, n - 1))
       ELSE Prob0(re, im, mask, n - 1)

\* The loop of normalizeState: sum after the indices below n.
RECURSIVE SumProb(_, _, _)
SumProb(re, im, n) ==
  IF n = 0 THEN F0
  ELSE FAdd(SumProb(re, im, n - 1), getStateProbability(re, im, n - 1))

\* Variant: no renormalisation.
normalizeState_Skip(re, im) == [re |-> re, im |-> im]

normalizeState(re, im) ==
  LET sum == SumProb(re, im, STATE_SIZE)
  IN IF FGt(sum, NormEps)
     THEN LET norm == FSqrt(sum)
          IN [re |-> [i \in Indices |-> FDiv(re[i], norm)],
              im |-> [i \in Indices |-> FDiv(im[i], norm)]]
     ELSE [re |-> re, im |-> im]

\* Variant: the branches of the conditional exchanged.
MeasureResult_Inverted(prob0) == IF FGt(prob0, Half) THEN 1 ELSE 0

\* int result = (prob0 > 0.5) ? 0 : 1
MeasureResult(prob0) == IF FGt(prob0, Half) THEN 0 ELSE 1

\* Variant: zeroes the amplitudes whose bit agrees with result.
Collapse_KeepsOther(arr, mask, result) ==
  [i \in Indices |-> IF MaskBit(i, mask) = (result /= 0) THEN F0 ELSE arr[i]]

\* Collapse: zero the amplitudes whose bit disagrees with result.
Collapse(arr, mask, result) ==
  [i \in Indices |-> IF MaskBit(i, mask) /= (result /= 0) THEN F0 ELSE arr[i]]

measureQubit(re, im, cm, qubit, mask) ==
  IF qubit >= NUM_QUBITS THEN [re |-> re, im |-> im, cm |-> cm]
  ELSE LET result == MeasureResult(Prob0(re, im, mask, STATE_SIZE))
           n == normalizeState(Collapse(re, mask, result), Collapse(im, mask, result))
       IN [re |-> n.re, im |-> n.im, cm |-> result]

\* qubitProbs[q] of updateLEDMatrix: the probability that qubit q is 1.
RECURSIVE qubitProbs(_, _, _, _)
qubitProbs(re, im, q, n) ==
  IF n = 0 THEN F0
  ELSE IF MaskBit(n - 1, Pow2(q))
       THEN FAdd(qubitProbs(re, im, q, n - 1), getStateProbability(re, im, n - 1))
       ELSE qubitProbs(re, im, q, n - 1)

\* ------------------------------------------------------------------------
\* The LCD rotation
\* ------------------------------------------------------------------------

\* The length of significantStates and significantProbs: 20 in the source
\* for 1024 basis states, scaled down with STATE_SIZE so that a uniform
\* superposition fills the arrays.
MaxSignificant == 2

\* The periods of updateLCDRotation, in milliseconds.
RotatePeriod == 2000
DotPeriod == 500
DotWindow == 50

\* prob > 0.01 compares in double; 0.01 lies between the binary32 values
\* 0x3C23D70A and 0x3C23D70B, so a float exceeds it exactly when it exceeds
\* 0x3C23D70A.
Threshold == MkFloat(0, -30, 10737418)

Entry(state, prob) == [state |-> state, prob |-> prob]

\* The collecting loop of updateLCDRotation after the indices below n: the
\* populated entries of significantStates and significantProbs, in order;
\* probs[i] is getStateProbability(i).
RECURSIVE Significant(_, _)
Significant(probs, n) ==
  IF n = 0 THEN <<>>
  ELSE LET found == Significant(probs, n - 1)
       IN IF Len(found) < MaxSignificant /\ FGt(probs[n - 1], Threshold)
          THEN Append(found, Entry(n - 1, probs[n - 1]))
          ELSE found

\* The numSignificant == 0 fallback.
Fallback(found) == IF Len(found) = 0 THEN <<Entry(0, F0)>> ELSE found

\* The populated entries when the rotation looks at them.  (The values are
\* bound through one-element sets so that each is computed once.)
SignificantList(re, im) ==
  CHOOSE list \in
    {Fallback(Significant(probs, STATE_SIZE)) :
       probs \in {[i \in Indices |-> getStateProbability(re, im, i)]}} : TRUE

\* What an entry of the local arrays holds where the loop stored nothing:
\* the stack's content, neither the index nor the probability determined.
Uninitialized == Entry(Indeterminate, Indeterminate)

NoLCDCall ==
  [called |-> FALSE, index |-> 0, count |-> 1, populated |-> TRUE,
   entry |-> Entry(0, F0), dots |-> 0]

\* The rotation's variables.  The code reads lastLCDUpdate only in the
\* unsigned difference millis() - lastLCDUpdate, which is what since holds.
Display(cds, since, dots) ==
  [sinceLCDUpdate |-> since, currentDisplayState |-> cds, dotCount |-> dots]

\* Variant: the rotation index is not reset.
updateDisplay_KeepsIndex(cds, since, dots) == Display(cds, 0, 0)

\* updateDisplay: lastLCDUpdate = millis() makes the difference 0.
updateDisplay(cds, since, dots) == Display(0, 0, 0)

IntMax == 2147483647

\* a % b of C for int operands, b > 0: the quotient truncates toward zero,
\* so the remainder has the sign of a.
CRem(a, b) == IF a >= 0 \/ a % b = 0 THEN a % b ELSE (a % b) - b

\* a + 1 in int: at INT_MAX the addition overflows and the builds wrap it
\* to INT_MIN.
IncInt(a) == IF a = IntMax THEN IntMin ELSE a + 1

\* The outcomes of updateLCDRotation from the populated entries list that
\* its collecting loop leaves (SignificantList), with elapsed the value of
\* currentTime - lastLCDUpdate.  In each, display holds the rotation
\* variables it leaves and call the call of displayStateOnLCD it makes, if
\* any.  The arguments of that call are read at currentDisplayState: from a
\* populated entry; from an entry of the arrays that the loop did not
\* store, which holds the stack's content; or from outside the arrays,
\* where the read returns what the memory holds or faults.  A fault comes
\* after dotCount++ and before the call.
updateLCDRotation(list, cds, dots, elapsed) ==
  LET numSignificant == Len(list)
      rotate == elapsed >= RotatePeriod
      since1 == IF rotate THEN 0 ELSE elapsed
      cds1 == IF rotate THEN CRem(IncInt(cds), numSignificant) ELSE cds
      dots1 == IF rotate THEN 0 ELSE dots
      show == (since1 % DotPeriod) < DotWindow /\ dots1 < 2
      populated == cds1 >= 0 /\ cds1 < numSignificant
      inArrays == cds1 >= 0 /\ cds1 < MaxSignificant
      display == Display(cds1, since1, IF show THEN dots1 + 1 ELSE dots1)
      read == [called |-> TRUE, index |-> cds1, count |-> numSignificant,
               populated |-> populated,
               entry |-> IF populated THEN list[cds1 + 1] ELSE Uninitialized,
               dots |-> dots1 + 1]
      faulted == [called |-> FALSE, index |-> cds1, count |-> numSignificant,
                  populated |-> FALSE, entry |-> Uninitialized,
                  dots |-> dots1 + 1]
  IN IF ~show
     THEN {[fault |-> FALSE, display |-> display, call |-> NoLCDCall]}
     ELSE {[fault |-> FALSE, display |-> display, call |-> read]}
          \cup (IF inArrays THEN {}
                ELSE {[fault |-> TRUE, display |-> display, call |-> faulted]})

\* ------------------------------------------------------------------------
\* handleRequest: one action per gate type, and the reset request
\* ------------------------------------------------------------------------

\* setup(): the globals are zero-initialised, then initializeQuantumState.
Init ==
  /\ stateReal = initializeQuantumState(AllZero, AllZero, 0).re
  /\ stateImag = initializeQuantumState(AllZero, AllZero, 0).im
  /\ currentMeasurement = initializeQuantumState(AllZero, AllZero, 0).cm
  /\ lastOp = Op("setup", NoTarget, NoTarget)
  /\ prevReal = Ground
  /\ prevImag = AllZero
  /\ prevMeasurement = 0
  /\ runLen = 1
  /\ runReal = Ground
  /\ runImag = AllZero
  /\ oob = FALSE
  /\ fault = FALSE
  /\ undefined = FALSE
  /\ measured = FALSE
  /\ steps = 0
  /\ badCalls = 0
  /\ sinceLCDUpdate = updateDisplay(0, 0, 0).sinceLCDUpdate
  /\ currentDisplayState = updateDisplay(0, 0, 0).currentDisplayState
  /\ dotCount = updateDisplay(0, 0, 0).dotCount
  /\ lcdCall = NoLCDCall

\* The call evaluates 1 << q with q negative.
Shifts(op) ==
  /\ op.op /= "reset"
  /\ IF op.op = "CNOT"
     THEN op.q < NUM_QUBITS /\ op.t < NUM_QUBITS /\ op.q /= op.t
          /\ (op.q < 0 \/ op.t < 0)
     ELSE op.q < 0

\* The call is answered by the bound check: an index >= NUM_QUBITS, or
\* control = target.
Rejected(op) ==
  /\ op.op /= "reset"
  /\ IF op.op = "CNOT"
     THEN op.q >= NUM_QUBITS \/ op.t >= NUM_QUBITS \/ op.q = op.t
     ELSE op.q >= NUM_QUBITS

\* The request that makes the call, with the bookkeeping every call shares.
\* A call that reads outside the arrays has two outcomes: the reads return
\* (re and im then hold what they returned), or the first of them faults.
\* The reads are made in the gate's first loop, before it writes the
\* arrays, so a fault leaves them as they were, and handleRequest does not
\* get to updateDisplay.  The behaviour of the program after undefined
\* behaviour is not followed further.
Call(op, re, im, cm, readOutside, hasMeasured) ==
  /\ steps < MaxSteps
  /\ ~undefined
  /\ badCalls + (IF Rejected(op) THEN 1 ELSE 0) <= MaxBadCalls
  /\ \E faults \in (IF readOutside THEN BOOLEAN ELSE {FALSE}) :
       /\ fault' = faults
       /\ stateReal' = (IF faults THEN stateReal ELSE re)
       /\ stateImag' = (IF faults THEN stateImag ELSE im)
       /\ LET d == IF faults
                   THEN Display(currentDisplayState, sinceLCDUpdate, dotCount)
                   ELSE updateDisplay(currentDisplayState, sinceLCDUpdate, dotCount)
          IN /\ currentDisplayState' = d.currentDisplayState
             /\ sinceLCDUpdate' = d.sinceLCDUpdate
             /\ dotCount' = d.dotCount
  /\ currentMeasurement' = cm
  /\ lastOp' = op
  /\ prevReal' = stateReal
  /\ prevImag' = stateImag
  /\ prevMeasurement' = currentMeasurement
  /\ runLen' = IF op = lastOp THEN runLen + 1 ELSE 1
  /\ runReal' = IF op = lastOp THEN runReal ELSE stateReal
  /\ runImag' = IF op = lastOp THEN runImag ELSE stateImag
  /\ oob' = readOutside
  /\ undefined' = (Shifts(op) \/ readOutside)
  /\ measured' = hasMeasured
  /\ steps' = steps + 1
  /\ badCalls' = badCalls + (IF Rejected(op) THEN 1 ELSE 0)
  /\ lcdCall' = NoLCDCall

GateX ==
  \E q \in QubitInputs : \E mask \in ShiftOutcomes(q) :
    LET r == applyXGate(stateReal, stateImag, q, mask)
    IN Call(Op("X", q, NoTarget), r.re, r.im, currentMeasurement, r.oob, measured)

GateY ==
  \E q \in QubitInputs : \E mask \in ShiftOutcomes(q) :
    LET r == applyYGate(stateReal, stateImag, q, mask)
    IN Call(Op("Y", q, NoTarget), r.re, r.im, currentMeasurement, r.oob, measured)

GateZ ==
  \E q \in QubitInputs : \E mask \in ShiftOutcomes(q) :
    LET r == applyZGate(stateReal, stateImag, q, mask)
    IN Call(Op("Z", q, NoTarget), r.re, r.im, currentMeasurement, r.oob, measured)

GateH ==
  \E q \in QubitInputs : \E mask \in ShiftOutcomes(q) :
    LET r == applyHGate(stateReal, stateImag, q, mask)
    IN Call(Op("H", q, NoTarget), r.re, r.im, currentMeasurement, r.oob, measured)

GateT ==
  \E q \in QubitInputs : \E mask \in ShiftOutcomes(q) :
    LET r == applyTGate(stateReal, stateImag, q, mask)
    IN Call(Op("T", q, NoTarget), r.re, r.im, currentMeasurement, r.oob, measured)

GateCNOT ==
  \E c \in QubitInputs : \E t \in QubitInputs :
    \E cmask \in ShiftOutcomes(c) : \E tmask \in ShiftOutcomes(t) :
      LET r == applyCNOTGate(stateReal, stateImag, c, t, cmask, tmask)
      IN Call(Op("CNOT", c, t), r.re, r.im, currentMeasurement, r.oob, measured)

GateM ==
  \E q \in QubitInputs : \E mask \in ShiftOutcomes(q) :
    LET r == measureQubit(stateReal, stateImag, currentMeasurement, q, mask)
    IN Call(Op("M", q, NoTarget), r.re, r.im, r.cm, FALSE,
            measured \/ InRange(q))

Reset ==
  LET r == initializeQuantumState(stateReal, stateImag, currentMeasurement)
  IN Call(Op("reset", NoTarget, NoTarget), r.re, r.im, r.cm, FALSE, FALSE)

Next == GateX \/ GateY \/ GateZ \/ GateH \/ GateT \/ GateCNOT \/ GateM \/ Reset

\* The requests, one after the other.  No time passes, and updateLCDRotation,
\* which writes none of the engine's variables, is left to SpecLCD.
Spec == Init /\ [][Next]_vars

\* Bound of the exploration with the LCD: the requests handled.
MaxRequests == 2

\* The milliseconds that pass between one read of millis() and the next.
TimeSteps == {0, 250, 2000}

engineVars == <<stateReal, stateImag, currentMeasurement, lastOp, prevReal,
                prevImag, prevMeasurement, runLen, runReal, runImag, oob,
                measured, steps, badCalls>>

\* An iteration of loop() up to server.available(): updateLCDRotation.  A
\* fault in it stops the program as one in a gate does.
Tick ==
  /\ ~undefined
  /\ \E list \in {SignificantList(stateReal, stateImag)} :
       \E dt \in TimeSteps :
         \E r \in updateLCDRotation(list, currentDisplayState, dotCount,
                                    sinceLCDUpdate + dt) :
           /\ sinceLCDUpdate' = r.display.sinceLCDUpdate
           /\ currentDisplayState' = r.display.currentDisplayState
           /\ dotCount' = r.display.dotCount
           /\ lcdCall' = r.call
           /\ fault' = r.fault
           /\ undefined' = r.fault
  /\ UNCHANGED engineVars

\* The rest of the iteration when a client has sent a request.
Request == steps < MaxRequests /\ Next

NextLCD == Tick \/ Request

\* loop(): the rotation of the LCD interleaved with the requests.
SpecLCD == Init /\ [][NextLCD]_vars

\* Every value the arithmetic produced is a finite binary32.
IsFinite(a) == a.e >= MinExp /\ a.e <= MaxExp /\ a.m < TwoP24

\* The arithmetic never left the finite binary32 range.
FiniteState ==
  \A i \in Indices :
    /\ IsIndeterminate(stateReal[i]) \/ IsFinite(stateReal[i])
    /\ IsIndeterminate(stateImag[i]) \/ IsFinite(stateImag[i])

\* ------------------------------------------------------------------------
\* Properties
\* ------------------------------------------------------------------------

\* 1e-5 as a binary32 (0x3727C5AC), the tolerance of the comparisons.
Tol == MkFloat(0, -40, 10995116)

\* |a|
FAbs(a) == MkFloat(0, a.e, a.m)

\* |a - b| <= 1e-5, which nothing says of an indeterminate value
Near(a, b) ==
  /\ ~IsIndeterminate(FSub(a, b))
  /\ ~FGt(FAbs(FSub(a, b)), Tol)

TotalProbability == SumProb(stateReal, stateImag, STATE_SIZE)

Probability(i) == getStateProbability(stateReal, stateImag, i)

SingleQubitOps == {"X", "Y", "Z", "H", "T", "M"}

\* The last call was op on an in-range qubit.
Applied(op) == lastOp.op = op /\ InRange(lastOp.q)

\* The last call carried a negative qubit index.
NegativeIndex ==
  \/ lastOp.op \in SingleQubitOps /\ lastOp.q < 0
  \/ lastOp.op = "CNOT" /\ (lastOp.q < 0 \/ lastOp.t < 0)

\* C1: after any sequence of calls, in range or not, the total probability
\* is 1 within tolerance, and the state vector is never all zero.
C1_UnitNorm ==
  /\ Near(TotalProbability, F1)
  /\ \E i \in Indices : ~IsZero(stateReal[i]) \/ ~IsZero(stateImag[i])

\* The same on the runs whose calls all have defined behaviour (no negative
\* index so far).
UnitNormDefined == ~undefined => C1_UnitNorm

\* The state H on qubit 0 makes of the ground state.
HGround == applyHGate(Ground, AllZero, 0, 1)

BellRun ==
  /\ lastOp = Op("CNOT", 0, 1)
  /\ prevReal = HGround.re
  /\ prevImag = HGround.im

\* C2: H on qubit 0 then CNOT(0, 1) from the ground state leaves probability
\* 0.5 (within tolerance) at the indices 0 and 3 and probability 0 at every
\* other index.
C2_Bell ==
  BellRun =>
    \A i \in Indices :
      IF i \in {0, 3}
      THEN Near(Probability(i), Half) /\ ~IsZero(Probability(i))
      ELSE IsZero(Probability(i))

C2_Witness == BellRun /\ steps = 2

\* C3: a call with an index >= NUM_QUBITS, or a CNOT with control = target,
\* leaves stateReal and stateImag identical, and measureQubit leaves
\* currentMeasurement unchanged.
C3_OutOfRangeNoOp ==
  Rejected(lastOp) =>
    /\ stateReal = prevReal
    /\ stateImag = prevImag
    /\ currentMeasurement = prevMeasurement
    /\ ~oob

\* A rejected CNOT with control = target on a state that is not the ground
\* state.
C3_Witness ==
  /\ lastOp.op = "CNOT"
  /\ lastOp.q = lastOp.t
  /\ InRange(lastOp.q)
  /\ stateReal /= Ground

\* C4: a call with a negative index is a no-op as well: the arrays are
\* unchanged and nothing outside them is read.
C4_NegativeNoOp ==
  NegativeIndex =>
    /\ stateReal = prevReal
    /\ stateImag = prevImag
    /\ ~oob
    /\ ~fault

\* The probability, in the current state, that qubit q reads bit.
QubitProbability(q, bit) ==
  IF bit = 1 THEN qubitProbs(stateReal, stateImag, q, STATE_SIZE)
  ELSE Prob0(stateReal, stateImag, Pow2(q), STATE_SIZE)

PrevUnitNorm == Near(SumProb(prevReal, prevImag, STATE_SIZE), F1)

\* C5: after measureQubit(q), q in range, on a unit-norm state, every index
\* whose bit q differs from the outcome r has amplitude (0, 0); qubit q reads
\* r with probability 1 and 1 - r with probability 0 within tolerance, and
\* with r = 0 the probability that it reads 1 is exactly 0.
C5_Collapse ==
  (Applied("M") /\ PrevUnitNorm) =>
    LET q == lastOp.q
        r == currentMeasurement
    IN /\ \A i \in Indices :
            MaskBit(i, Pow2(q)) /= (r = 1) =>
              stateReal[i] = F0 /\ stateImag[i] = F0
       /\ Near(QubitProbability(q, r), F1)
       /\ Near(QubitProbability(q, 1 - r), F0)
       /\ r = 0 => QubitProbability(q, 1) = F0

\* A measurement that removed a branch of a superposition.
C5_Witness ==
  /\ Applied("M")
  /\ PrevUnitNorm
  /\ \E i \in Indices :
       (~IsZero(prevReal[i]) \/ ~IsZero(prevImag[i]))
       /\ IsZero(stateReal[i]) /\ IsZero(stateImag[i])

\* C6: the outcome of measureQubit(q), q in range, is 0 exactly when prob0,
\* the sum of the probabilities of the indices with bit q clear in the state
\* before, exceeds 0.5, and 1 otherwise; H on the ground state gives 1.
C6_OutcomeRule ==
  Applied("M") =>
    LET prob0 == Prob0(prevReal, prevImag, Pow2(lastOp.q), STATE_SIZE)
    IN /\ currentMeasurement \in {0, 1}
       /\ currentMeasurement = 0 <=> FGt(prob0, Half)
       /\ (prevReal = HGround.re /\ prevImag = HGround.im /\ lastOp.q = 0)
            => currentMeasurement = 1

\* The measurement of qubit 0 after H on the ground state.
C6_Witness ==
  /\ Applied("M")
  /\ lastOp.q = 0
  /\ prevReal = HGround.re
  /\ prevImag = HGround.im
  /\ currentMeasurement = 1

\* The measurement state the program keeps: the global currentMeasurement
\* and no other.
MeasurementState == [outcome |-> currentMeasurement]

\* After measureQubit(q), q in range, the measurement state holds the
\* qubit q.
QubitRecorded ==
  Applied("M") =>
    /\ "qubit" \in DOMAIN MeasurementState
    /\ MeasurementState.qubit = lastOp.q

\* Before any measurement since construction or reset the measurement state
\* is no outcome.
NoneDistinguishable == ~measured => MeasurementState.outcome \notin {0, 1}

\* C7: after measure(q), q in range, the last-measurement state holds both
\* the outcome (0 or 1) and the qubit q that produced it, and before any
\* measurement since construction or reset it is distinguishable as "none".
C7_RecordOrNone ==
  /\ Applied("M") => MeasurementState.outcome \in {0, 1}
  /\ QubitRecorded
  /\ NoneDistinguishable

\* What the code keeps instead: the outcome alone.  After measureQubit(q),
\* q in range, currentMeasurement is the bit every surviving index carries
\* at q; after construction or reset it is 0, the value of an outcome 0; no
\* other call changes it.
OutcomeOnly ==
  /\ Applied("M") =>
       /\ currentMeasurement \in {0, 1}
       /\ \A i \in Indices :
            (~IsZero(stateReal[i]) \/ ~IsZero(stateImag[i]))
              => MaskBit(i, Pow2(lastOp.q)) = (currentMeasurement = 1)
  /\ lastOp.op \in {"setup", "reset"} => currentMeasurement = 0
  /\ lastOp.op \in {"X", "Y", "Z", "H", "T", "CNOT"}
       => currentMeasurement = prevMeasurement

\* C8: initializeQuantumState gives amplitude (1, 0) at index 0 and (0, 0)
\* elsewhere, so probability 1 at index 0 and 0 elsewhere, from any state;
\* a second reset gives the same state as the first.
C8_Reset ==
  lastOp.op = "reset" =>
    /\ \A i \in Indices :
         /\ stateReal[i] = (IF i = 0 THEN F1 ELSE F0)
         /\ stateImag[i] = F0
         /\ Probability(i) = (IF i = 0 THEN F1 ELSE F0)
    /\ runLen >= 2 => stateReal = prevReal /\ stateImag = prevImag

\* Two resets in a row, the first from a state other than the ground state.
C8_Witness ==
  /\ lastOp.op = "reset"
  /\ runLen = 2
  /\ (runReal /= Ground \/ runImag /= AllZero)

\* C9: X twice, and Z twice, on an in-range qubit give back the exact
\* arrays.
C9_XZInvolution ==
  ((Applied("X") \/ Applied("Z")) /\ runLen = 2) =>
    stateReal = runReal /\ stateImag = runImag

\* X twice on a state that the first X changed.
C9_Witness ==
  /\ Applied("X")
  /\ runLen = 2
  /\ prevReal /= runReal
  /\ runReal /= Ground

\* C10 as stated: H twice on an in-range qubit gives back the exact arrays.
C10_HInvolutionExact ==
  (Applied("H") /\ runLen = 2) =>
    stateReal = runReal /\ stateImag = runImag

RunUnitNorm == Near(SumProb(runReal, runImag, STATE_SIZE), F1)

\* C10 amended: H twice on an in-range qubit of a unit-norm state gives back
\* every real and imaginary component within the tolerance 1e-5.
C10_HInvolutionNear ==
  (Applied("H") /\ runLen = 2 /\ RunUnitNorm) =>
    \A i \in Indices :
      Near(stateReal[i], runReal[i]) /\ Near(stateImag[i], runImag[i])

\* H twice with a component that came back rounded.
C10_Witness ==
  /\ Applied("H")
  /\ runLen = 2
  /\ RunUnitNorm
  /\ stateReal /= runReal

PrevProbability(i) == getStateProbability(prevReal, prevImag, i)

\* C11: applyTGate(q), q in range, changes no basis probability by more
\* than the tolerance, and leaves the amplitude of every index with bit q
\* clear exactly as it was.
C11_TPhaseOnly ==
  Applied("T") =>
    \A i \in Indices :
      /\ Near(Probability(i), PrevProbability(i))
      /\ ~MaskBit(i, Pow2(lastOp.q)) =>
            stateReal[i] = prevReal[i] /\ stateImag[i] = prevImag[i]

\* T turned the phase of an amplitude, next to an amplitude it left alone.
C11_Witness ==
  /\ Applied("T")
  /\ \E i \in Indices :
       /\ MaskBit(i, Pow2(lastOp.q))
       /\ stateImag[i] /= prevImag[i]
  /\ \E i \in Indices :
       /\ ~MaskBit(i, Pow2(lastOp.q))
       /\ ~IsZero(prevReal[i])

\* The state H then Z on qubit q make of the ground state.
HZGround(q) ==
  LET h == applyHGate(Ground, AllZero, q, Pow2(q))
  IN applyZGate(h.re, h.im, q, Pow2(q))

\* The last call was the second H of H(q), Z(q), H(q) from the ground state.
InterferenceRun(q) ==
  /\ lastOp = Op("H", q, NoTarget)
  /\ prevReal = HZGround(q).re
  /\ prevImag = HZGround(q).im

\* C12: H(q), Z(q), H(q) from the ground state, q in range, leaves
\* probability 1 (within tolerance) at the index 1 << q and probability 0
\* at every other index.
C12_Interference ==
  \A q \in 0 .. (NUM_QUBITS - 1) :
    InterferenceRun(q) =>
      \A i \in Indices :
        IF i = Pow2(q)
        THEN Near(Probability(i), F1)
        ELSE IsZero(Probability(i))

\* The three calls made on the highest qubit, from the ground state.
C12_Witness ==
  /\ InterferenceRun(NUM_QUBITS - 1)
  /\ steps = 3
  /\ ~IsZero(Probability(Pow2(NUM_QUBITS - 1)))

\* The last call was applyCNOTGate on two distinct in-range qubits.
AppliedCNOT ==
  /\ lastOp.op = "CNOT"
  /\ InRange(lastOp.q)
  /\ InRange(lastOp.t)
  /\ lastOp.q /= lastOp.t

\* C13: after applyCNOTGate(control, target), distinct and in range, the
\* amplitude at every index with the control bit set is the amplitude the
\* index with the target bit flipped had before the call, and the amplitude
\* at every index with the control bit clear is unchanged; nothing outside
\* the arrays is read.
C13_ControlledX ==
  AppliedCNOT =>
    /\ \A i \in Indices :
         IF MaskBit(i, Pow2(lastOp.q))
         THEN /\ stateReal[i] = prevReal[XorMask(i, Pow2(lastOp.t))]
              /\ stateImag[i] = prevImag[XorMask(i, Pow2(lastOp.t))]
         ELSE /\ stateReal[i] = prevReal[i]
              /\ stateImag[i] = prevImag[i]
    /\ ~oob

\* A CNOT that exchanged two different amplitudes, of a state that has an
\* amplitude under a clear control bit as well.
C13_Witness ==
  /\ AppliedCNOT
  /\ stateReal /= prevReal
  /\ \E i \in Indices : ~MaskBit(i, Pow2(lastOp.q)) /\ ~IsZero(prevReal[i])

\* C14: measureQubit(q), q in range, called again right after itself on
\* what was a unit-norm state, stores the same outcome and leaves every
\* real and imaginary component within the tolerance of its value after
\* the first call.
C14_MeasureIdempotent ==
  (Applied("M") /\ runLen >= 2 /\ RunUnitNorm) =>
    /\ currentMeasurement = prevMeasurement
    /\ \A i \in Indices :
         Near(stateReal[i], prevReal[i]) /\ Near(stateImag[i], prevImag[i])

\* A second measurement, after a first one that removed a branch of a
\* superposition.
C14_Witness ==
  /\ Applied("M")
  /\ runLen = 2
  /\ RunUnitNorm
  /\ \E i \in Indices : ~IsZero(runReal[i]) /\ IsZero(prevReal[i])

\* C15: whenever displayStateOnLCD is called, the index currentDisplayState
\* is at least 0 and below numSignificant, which is at most the length of
\* the arrays, so the entry read is one the same call of updateLCDRotation
\* populated (no step reads another entry, whether or not the read returns
\* and the call is made); and dotCount never exceeds 2.
C15_LCDIndexInRange ==
  /\ lcdCall.populated
  /\ lcdCall.called =>
       /\ 0 <= lcdCall.index
       /\ lcdCall.index < lcdCall.count
       /\ lcdCall.count <= MaxSignificant
       /\ lcdCall.populated
       /\ lcdCall.index = currentDisplayState
       /\ lcdCall.dots <= 2
  /\ dotCount >= 0
  /\ dotCount <= 2

\* The display of the second entry of a full list, with the second dot,
\* after requests that made more basis states significant than the arrays
\* hold.
C15_Witness ==
  /\ lcdCall.called
  /\ lcdCall.index = 1
  /\ lcdCall.count = MaxSignificant
  /\ Len(SignificantList(stateReal, stateImag)) = MaxSignificant
  /\ \E i \in Indices :
       /\ i > lcdCall.entry.state
       /\ FGt(Probability(i), Threshold)
       /\ \A k \in 1 .. MaxSignificant :
            SignificantList(stateReal, stateImag)[k].state /= i
  /\ dotCount = 2

====
